---------------------------- MODULE Spec2Model ----------------------------
(***************************************************************************)
(* A model of prlworkflows' SQS core: the abstract structure               *)
(* (sqs.AbstractSQS), its substitution into a concrete structure           *)
(* (AbstractSQS.get_concrete_sqs), the enumeration of concrete structures  *)
(* (sqs.enumerate_sqs) and the builder (sqs_db.lat_in_to_sqs).             *)
(*                                                                         *)
(* Representation.                                                         *)
(*  - A Python str is a sequence of one-character strings, so that         *)
(*    concatenation ('X' + name + symbol), lower-casing and the            *)
(*    lexicographic order used by sorted() are computed, not assumed.      *)
(*  - A structure keeps the species of its sites in site order and the     *)
(*    volume of its lattice; site positions play no part in the code that  *)
(*    is modelled and are left out.                                        *)
(*  - A float is an exact fraction <<numerator, denominator>> in lowest    *)
(*    terms: rounding is left out.                                         *)
(*  - A raised exception is a record [raised |-> <type>, ...].             *)
(***************************************************************************)
EXTENDS Integers, Sequences, FiniteSets, TLC

VARIABLES
    structure,   \* the caller's AbstractSQS object
    pc,          \* "idle": no call made; "returned": `call` has returned or raised
    call,        \* the last call and its arguments
    outcome      \* what the last call returned or raised

vars == <<structure, pc, call, outcome>>

-----------------------------------------------------------------------------
(* Bounds of the model. *)

\* most sites of a generated abstract structure
MaxSites == 3
\* most species entries of a generated concrete or solution sublattice model
MaxEntries == 3

-----------------------------------------------------------------------------
(* Python values. *)

\* The characters that occur, in code point order (upper case, '_', lower case).
Alphabet ==
    << "A","B","C","D","E","F","G","H","I","J","K","L","M","N","O","P","Q",
       "R","S","T","U","V","W","X","Y","Z","_",
       "a","b","c","d","e","f","g","h","i","j","k","l","m","n","o","p","q",
       "r","s","t","u","v","w","x","y","z" >>

\* ord(c), up to the code point of 'A'
CodePoints == [c \in { Alphabet[i] : i \in 1..Len(Alphabet) } |->
                  CHOOSE i \in 1..Len(Alphabet) : Alphabet[i] = c]

Code(c) == CodePoints[c]

\* s < t for two str values
StrLess(s, t) ==
    \/ \E k \in 1..Len(t) :
          /\ k <= Len(s)
          /\ \A i \in 1..(k-1) : s[i] = t[i]
          /\ Code(s[k]) < Code(t[k])
    \/ /\ Len(s) < Len(t)
       /\ \A i \in 1..Len(s) : s[i] = t[i]

\* sorted(S) for a finite set S of str values
RECURSIVE Sorted(_)
Sorted(S) ==
    IF S = {} THEN << >>
    ELSE LET m == CHOOSE x \in S : \A y \in S \ {x} : StrLess(x, y)
         IN  <<m>> \o Sorted(S \ {m})

\* set(seq)
ToSet(seq) == { seq[i] : i \in 1..Len(seq) }

\* all sequences over S of length lo..hi
SeqsOf(S, lo, hi) == UNION { [1..n -> S] : n \in lo..hi }

Min(a, b) == IF a <= b THEN a ELSE b

RECURSIVE Gcd(_, _)
Gcd(a, b) == IF b = 0 THEN a ELSE Gcd(b, a % b)

RECURSIVE GcdAll(_)
GcdAll(S) ==
    IF S = {} THEN 0
    ELSE LET x == CHOOSE y \in S : TRUE IN Gcd(x, GcdAll(S \ {x}))

RECURSIVE SumSeq(_)
SumSeq(seq) == IF seq = << >> THEN 0 ELSE Head(seq) + SumSeq(Tail(seq))

\* a float, as a fraction in lowest terms
Frac(n, d) == LET g == Gcd(n, d) IN IF g = 0 THEN <<0, 1>> ELSE <<n \div g, d \div g>>

FracAdd(x, y) == Frac(x[1] * y[2] + y[1] * x[2], x[2] * y[2])

RECURSIVE FracSum(_)
FracSum(seq) == IF seq = << >> THEN <<0, 1>> ELSE FracAdd(Head(seq), FracSum(Tail(seq)))

-----------------------------------------------------------------------------
(* Species. *)

Al == <<"A", "l">>
Cr == <<"C", "r">>
Fe == <<"F", "e">>
Ni == <<"N", "i">>

\* the elements whose data the model holds
Elements == {Al, Cr, Fe, Ni}

\* pymatgen's Element(...).data['Density of solid'], rounded to 100 kg m-3
DensityOfSolid(el) ==
    CASE el = Al -> 27
      [] el = Cr -> 71
      [] el = Fe -> 79
      [] el = Ni -> 89

\* pymatgen's atomic mass, rounded to an atomic mass unit
AtomicMass(el) ==
    CASE el = Al -> 27
      [] el = Cr -> 52
      [] el = Fe -> 56
      [] el = Ni -> 59

\* a species that is no chemical element (pymatgen makes it a DummySpecie)
Xx == <<"X", "x">>

None == [cls |-> "NoneType"]

-----------------------------------------------------------------------------
(* pymatgen.Structure, as far as the code uses it. *)

\* the keyword arguments pymatgen's Structure.__init__ accepts
StructureKeywords ==
    {"validate_proximity", "to_unit_cell", "coords_are_cartesian", "site_properties"}

\* Structure.__init__(lattice, species, coords, **kwargs): the fields the
\* subclass set before the call are kept
Structure__init__(fields, lattice_volume, species, kwargs) ==
    IF DOMAIN kwargs \subseteq StructureKeywords
    THEN [raised |-> "none",
          value  |-> [f \in DOMAIN fields \cup {"species", "volume"} |->
                        CASE f = "species" -> species
                          [] f = "volume"  -> lattice_volume
                          [] OTHER         -> fields[f]]]
    ELSE [raised |-> "TypeError",
          message |-> <<"unexpected keyword argument", DOMAIN kwargs \ StructureKeywords>>]

\* kwargs.pop(key, None)
Pop(kwargs, key) == IF key \in DOMAIN kwargs THEN kwargs[key] ELSE None

\* kwargs after the keys of `keys` were popped
Without(kwargs, keys) == [k \in DOMAIN kwargs \ keys |-> kwargs[k]]

\* Structure.num_sites
NumSites(s) == Len(s.species)

\* number of sites of species sp
Count(s, sp) == Cardinality({ i \in 1..Len(s.species) : s.species[i] = sp })

\* the key of a zero-oxidation-state dummy species in Composition.as_dict()
CompKey(token) == token \o <<"0", "+">>

\* Structure.composition.as_dict()
CompositionDict(s) ==
    [k \in { CompKey(sp) : sp \in ToSet(s.species) } |->
        Count(s, CHOOSE sp \in ToSet(s.species) : CompKey(sp) = k)]

\* a mutation of ReducedCompositionDict: the composition is not reduced
UnreducedCompositionDict(s) == CompositionDict(s)

\* Structure.composition.reduced_composition.as_dict(), with int() applied:
\* the amounts divided by their greatest common divisor
ReducedCompositionDict(s) ==
    LET comp == CompositionDict(s)
        g    == GcdAll({ comp[k] : k \in DOMAIN comp })
    IN  [k \in DOMAIN comp |-> comp[k] \div g]

\* Structure.replace_species(species_mapping)
ReplaceSpecies(s, mapping) ==
    [s EXCEPT !.species =
        [i \in 1..Len(s.species) |->
            IF s.species[i] \in DOMAIN mapping THEN mapping[s.species[i]]
            ELSE s.species[i]]]

-----------------------------------------------------------------------------
(* sqs.AbstractSQS *)

\* AbstractSQS.__init__(*args, **kwargs)
AbstractSQS__init__(lattice_volume, species, kwargs) ==
    LET fields == [cls |-> "AbstractSQS",
                   sublattice_model |-> Pop(kwargs, "sublattice_model"),
                   sublattice_names |-> Pop(kwargs, "sublattice_names")]
    IN  Structure__init__(fields, lattice_volume, species,
                          Without(kwargs, {"sublattice_model", "sublattice_names"}))

\* 'X' + subl_name + abstract_specie
Token(subl_name, abstract_specie) == <<"X">> \o subl_name \o abstract_specie

\* number of tuples zip() yields for the abstract model, the names and a third list
ZipLen(self, n) == Min(Min(Len(self.sublattice_model), Len(self.sublattice_names)), n)

\* whether comp_dict[...] finds every key the site-ratio properties look up
SiteRatioKeysFound(self) ==
    \A i \in 1..ZipLen(self, Len(self.sublattice_model)) :
        \A j \in 1..Len(self.sublattice_model[i]) :
            CompKey(Token(self.sublattice_names[i], self.sublattice_model[i][j]))
                \in DOMAIN CompositionDict(self)

\* AbstractSQS.normalized_sublattice_site_ratios
normalized_sublattice_site_ratios(self) ==
    LET comp_dict == CompositionDict(self)
    IN  [i \in 1..ZipLen(self, Len(self.sublattice_model)) |->
            [j \in 1..Len(self.sublattice_model[i]) |->
                Frac(comp_dict[CompKey(Token(self.sublattice_names[i],
                                             self.sublattice_model[i][j]))],
                     NumSites(self))]]

\* AbstractSQS.sublattice_site_ratios
sublattice_site_ratios(self) ==
    LET comp_dict == ReducedCompositionDict(self)
    IN  [i \in 1..ZipLen(self, Len(self.sublattice_model)) |->
            [j \in 1..Len(self.sublattice_model[i]) |->
                comp_dict[CompKey(Token(self.sublattice_names[i],
                                        self.sublattice_model[i][j]))]]]

\* dict[key] = value
DictSet(d, key, value) ==
    [k \in DOMAIN d \cup {key} |-> IF k = key THEN value ELSE d[k]]

\* a mutation of DictGet: the value already stored is not read
DictGetIgnoringStored(d, key) == <<0, 1>>

\* dict.get(key, 0), for a dict of floats
DictGet(d, key) == IF key \in DOMAIN d THEN d[key] ELSE <<0, 1>>

\* the ValueError of _subl_error(): the message names both models
SublError(self, subl_model) ==
    [raised  |-> "ValueError",
     message |-> <<"does not match size of abstract sublattice model",
                   subl_model, self.sublattice_model>>]

\* line 71: len(subl_model) != len(self.sublattice_model)
OuterSizeMismatch(self, subl_model) == Len(subl_model) # Len(self.sublattice_model)

\* a mutation of InnerSizeMismatch: only a shorter concrete list is refused
InnerShorterOnly(abstract_subl, concrete_subl) == Len(concrete_subl) < Len(abstract_subl)

\* line 79: len(abstract_subl) != len(concrete_subl)
InnerSizeMismatch(abstract_subl, concrete_subl) == Len(abstract_subl) # Len(concrete_subl)

\* the inner loop of get_concrete_sqs over the slots j.. of one sublattice:
\* acc is [replacement_dict, sublattice_occupancy_dict]
RECURSIVE SlotLoop(_, _, _, _, _, _, _)
SlotLoop(abstract_subl, concrete_subl, subl_name, subl_ratios, ratio_sum, j, acc) ==
    IF j > Min(Len(abstract_subl), Min(Len(concrete_subl), Len(subl_ratios))) THEN acc
    ELSE LET specie == Token(subl_name, abstract_subl[j])
             concrete_specie == concrete_subl[j]
             share == Frac(subl_ratios[j], ratio_sum)
         IN  SlotLoop(abstract_subl, concrete_subl, subl_name, subl_ratios, ratio_sum, j + 1,
                 [replacement_dict |-> DictSet(acc.replacement_dict, specie, concrete_specie),
                  sublattice_occupancy_dict |->
                      DictSet(acc.sublattice_occupancy_dict, concrete_specie,
                              FracAdd(DictGet(acc.sublattice_occupancy_dict, concrete_specie),
                                      share))])

\* the outer loop of get_concrete_sqs over the sublattices i..: it raises at the
\* first inner list whose length differs from the abstract sublattice's
RECURSIVE SublatticeLoop(_, _, _, _, _, _)
SublatticeLoop(self, subl_model, ratios, i, replacement_dict, site_occupancies) ==
    IF i > Min(ZipLen(self, Len(subl_model)), Len(ratios))
    THEN [raised |-> "none", replacement_dict |-> replacement_dict,
          site_occupancies |-> site_occupancies]
    ELSE IF InnerSizeMismatch(self.sublattice_model[i], subl_model[i])
    THEN SublError(self, subl_model)
    ELSE LET acc == SlotLoop(self.sublattice_model[i], subl_model[i],
                             self.sublattice_names[i], ratios[i], SumSeq(ratios[i]), 1,
                             [replacement_dict |-> replacement_dict,
                              sublattice_occupancy_dict |-> << >>])
         IN  SublatticeLoop(self, subl_model, ratios, i + 1, acc.replacement_dict,
                            Append(site_occupancies, acc.sublattice_occupancy_dict))

\* a mutation of deepcopy: no copy is made, the reference is an alias of ref
AliasInsteadOfCopy(heap, ref) == [heap |-> heap, ref |-> ref]

\* copy.deepcopy(self): a new object on the heap, equal to the one at ref
deepcopy(heap, ref) ==
    [heap |-> [id \in DOMAIN heap \cup {"self_copy"} |->
                  IF id = "self_copy" THEN heap[ref] ELSE heap[id]],
     ref  |-> "self_copy"]

\* the elements of a structure's composition
CompositionElements(s) == ToSet(s.species)

\* the sum over the elements S of the site count times the atomic mass, or times
\* the density of the solid
RECURSIVE WeightedSum(_, _, _)
WeightedSum(s, S, table) ==
    IF S = {} THEN 0
    ELSE LET el == CHOOSE x \in S : TRUE
         IN  Count(s, el) * (IF table = "mass" THEN AtomicMass(el) ELSE DensityOfSolid(el))
             + WeightedSum(s, S \ {el}, table)

\* the volume passed to scale_lattice, in cubic angstrom (lines 94-100):
\* (volume / estimated_density) * density, where density is 1.66 * mass / volume
\* and estimated_density is the site-fraction-weighted density in g cm-3
ScaledVolume(s) ==
    LET els == CompositionElements(s)
    IN  Frac(166 * NumSites(s) * WeightedSum(s, els, "mass"),
             10 * WeightedSum(s, els, "density"))

\* lines 93-100 applied to the object at ref: pmg.Element(component) raises for a
\* component that is no element
ScaleVolume(heap, ref) ==
    IF CompositionElements(heap[ref]) \subseteq Elements
    THEN [raised |-> "none",
          heap |-> [heap EXCEPT ![ref].volume = ScaledVolume(heap[ref])]]
    ELSE [raised |-> "ValueError",
          message |-> <<"is not a valid Element",
                        CompositionElements(heap[ref]) \ Elements>>]

\* a mutation of Canonical: the list is kept as passed
AsPassed(subl) == subl

\* line 106: sorted(set(subl))
Canonical(subl) == Sorted(ToSet(subl))

\* lines 105-118: the concrete SQS built from the sites of self_copy
ConcreteSQS(self, self_copy, subl_model, site_occupancies) ==
    LET sublattice_configuration ==
            [i \in 1..Len(subl_model) |-> Canonical(subl_model[i])]
        sublattice_occupancies ==
            [i \in 1..Min(Len(site_occupancies), Len(sublattice_configuration)) |->
                [j \in 1..Len(sublattice_configuration[i]) |->
                    site_occupancies[i][sublattice_configuration[i][j]]]]
        ratios == sublattice_site_ratios(self)
        site_ratios == [i \in 1..Len(ratios) |-> SumSeq(ratios[i])]
    IN  [cls |-> "SQS",
         species |-> self_copy.species,
         volume |-> self_copy.volume,
         sublattice_configuration |-> sublattice_configuration,
         sublattice_occupancies |-> sublattice_occupancies,
         sublattice_site_ratios |-> site_ratios]

\* lines 90-91: the heap after self was copied and the species of the copy were
\* replaced, and the reference self_copy holds
CopyAndReplace(self, replacement_dict) ==
    LET copied == deepcopy([self |-> self], "self")
    IN  [heap |-> [copied.heap EXCEPT ![copied.ref] =
                      ReplaceSpecies(copied.heap[copied.ref], replacement_dict)],
         ref  |-> copied.ref]

\* lines 93-100, when scale_volume is set
ScaleIfAsked(frame, scale_volume) ==
    IF scale_volume THEN ScaleVolume(frame.heap, frame.ref)
    ELSE [raised |-> "none", heap |-> frame.heap]

\* lines 102-118, after the volume was scaled (or scaling raised); line 111 reads
\* self.sublattice_site_ratios again
Canonicalize(before, ref, subl_model, site_occupancies, scaled) ==
    IF scaled.raised # "none"
    THEN [raised |-> scaled.raised, message |-> scaled.message, self |-> before]
    ELSE IF ~SiteRatioKeysFound(scaled.heap["self"])
    THEN [raised |-> "KeyError", message |-> <<"comp_dict">>, self |-> scaled.heap["self"]]
    ELSE [raised |-> "none",
          value  |-> ConcreteSQS(scaled.heap["self"], scaled.heap[ref], subl_model,
                                 site_occupancies),
          self   |-> scaled.heap["self"]]

\* lines 89-118, on the heap in which self_copy was made
CopyScaleCanonicalize(frame, subl_model, scale_volume, site_occupancies) ==
    Canonicalize(frame.heap["self"], frame.ref, subl_model, site_occupancies,
                 ScaleIfAsked(frame, scale_volume))

\* lines 89-118, after the loop of lines 78-87 ended or raised
Substitute(self, subl_model, scale_volume, loop) ==
    IF loop.raised # "none" THEN loop @@ [self |-> self]
    ELSE CopyScaleCanonicalize(CopyAndReplace(self, loop.replacement_dict), subl_model,
                               scale_volume, loop.site_occupancies)

\* AbstractSQS.get_concrete_sqs(subl_model, scale_volume): what it returns or
\* raises, and the object self afterwards
get_concrete_sqs(self, subl_model, scale_volume) ==
    IF OuterSizeMismatch(self, subl_model)
    THEN SublError(self, subl_model) @@ [self |-> self]
    ELSE IF ~SiteRatioKeysFound(self)
    THEN [raised |-> "KeyError", message |-> <<"comp_dict">>, self |-> self]
    ELSE Substitute(self, subl_model, scale_volume,
                    SublatticeLoop(self, subl_model, sublattice_site_ratios(self), 1,
                                   << >>, << >>))

-----------------------------------------------------------------------------
(* sqs.enumerate_sqs *)

\* a < b for two Python lists of integers
ListLess(a, b) ==
    \/ \E k \in 1..Min(Len(a), Len(b)) :
          /\ \A i \in 1..(k-1) : a[i] = b[i]
          /\ a[k] < b[k]
    \/ /\ Len(a) < Len(b)
       /\ \A i \in 1..Len(a) : a[i] = b[i]

\* [len(subl) for subl in model]
Lens(model) == [i \in 1..Len(model) |-> Len(model[i])]

\* a mutation of LowerOrder: any difference of the lengths counts as lower order
AnyLengthDiffers(subl_model, abstract_model) == Lens(subl_model) # Lens(abstract_model)

\* line 304: np.any(list < list) is the bool that the list comparison gives
LowerOrder(subl_model, abstract_model) == ListLess(Lens(subl_model), Lens(abstract_model))

\* the concatenation of a sequence of sequences
RECURSIVE Flatten(_)
Flatten(ss) == IF ss = << >> THEN << >> ELSE Head(ss) \o Flatten(Tail(ss))

\* seq without its k-th element
RemoveAt(seq, k) == [i \in 1..(Len(seq) - 1) |-> IF i < k THEN seq[i] ELSE seq[i + 1]]

\* list(itertools.permutations(pool, r)): the r-length arrangements of the
\* positions of pool, in the order of the positions
RECURSIVE permutations(_, _)
permutations(pool, r) ==
    IF r = 0 THEN << << >> >>
    ELSE Flatten([k \in 1..Len(pool) |->
            LET rest == permutations(RemoveAt(pool, k), r - 1)
            IN  [n \in 1..Len(rest) |-> <<pool[k]>> \o rest[n]]])

\* lines 308-311: the arrangements offered for one sublattice
PossibleSubls(subl, abstract_subl, endmembers) == permutations(subl, Len(abstract_subl))

\* list(itertools.product(*lists)): the first list varies slowest
RECURSIVE product(_)
product(lists) ==
    IF lists = << >> THEN << << >> >>
    ELSE LET rest == product(Tail(lists))
         IN  Flatten([k \in 1..Len(Head(lists)) |->
                 [n \in 1..Len(rest) |-> <<Head(lists)[k]>> \o rest[n]]])

\* what line 325 appends to the list sublattice_occupancies: the list itself
SelfReference == [ref |-> "sublattice_occupancies"]

\* occupancies == tracker, where every element of tracker is tracker itself: two
\* lists are equal when they are as long and equal element by element, and a
\* float never equals a list
EqualsTracker(occupancies, tracker) ==
    /\ Len(occupancies) = Len(tracker)
    /\ \A i \in 1..Len(occupancies) :
          /\ Len(occupancies[i]) = Len(tracker)
          /\ \A j \in 1..Len(occupancies[i]) : FALSE

\* line 323: concrete.sublattice_occupancies in sublattice_occupancies
OccupanciesSeen(occupancies, tracker) ==
    \E k \in 1..Len(tracker) :
        tracker[k] = SelfReference /\ EqualsTracker(occupancies, tracker)

\* line 322: concrete.sublattice_configuration in sublattice_configuration
ConfigurationSeen(configuration, seen) ==
    \E k \in 1..Len(seen) : seen[k] = configuration

\* lines 322-326: the three lists after the candidate `concrete` was looked at
Deduplicate(st, concrete, self) ==
    IF /\ ~ConfigurationSeen(concrete.sublattice_configuration, st.sublattice_configuration)
       /\ ~OccupanciesSeen(concrete.sublattice_occupancies, st.sublattice_occupancies)
    THEN [raised |-> "none", self |-> self,
          result |-> Append(st.result, concrete),
          sublattice_configuration |->
              Append(st.sublattice_configuration, concrete.sublattice_configuration),
          sublattice_occupancies |-> Append(st.sublattice_occupancies, SelfReference)]
    ELSE [st EXCEPT !.self = self]

\* lines 319-326: the loop over the candidate models n.. ; st holds the object
\* self and the three lists, r is what get_concrete_sqs gave for models[n]
RECURSIVE EnumerationLoop(_, _, _, _)
EnumerationStep(models, scale_volume, n, st, r) ==
    IF r.raised # "none"
    THEN [raised |-> r.raised, message |-> r.message, self |-> r.self]
    ELSE EnumerationLoop(models, scale_volume, n + 1, Deduplicate(st, r.value, r.self))

EnumerationLoop(models, scale_volume, n, st) ==
    IF n > Len(models) THEN st
    ELSE EnumerationStep(models, scale_volume, n, st,
                         get_concrete_sqs(st.self, models[n], scale_volume))

\* line 327, or the exception of a candidate
EnumerationResult(st) ==
    IF st.raised # "none" THEN st
    ELSE [raised |-> "none", value |-> st.result, line |-> 327, self |-> st.self]

\* lines 308-313: the candidate models
UniqueSublModels(self, subl_model, endmembers) ==
    product([i \in 1..Len(subl_model) |->
                PossibleSubls(subl_model[i], self.sublattice_model[i], endmembers)])

\* enumerate_sqs(structure, subl_model, endmembers, scale_volume, skip_on_failure):
\* what it returns or raises, where it returned, and the object afterwards
enumerate_sqs(self, subl_model, endmembers, scale_volume, skip_on_failure) ==
    IF Len(subl_model) # Len(self.sublattice_model)
    THEN [raised  |-> "ValueError",
          message |-> <<"does not agree with the passed structure",
                        subl_model, self.sublattice_model>>,
          self |-> self]
    ELSE IF LowerOrder(subl_model, self.sublattice_model)
    THEN IF skip_on_failure
         THEN [raised |-> "none", value |-> << >>, line |-> 306, self |-> self]
         ELSE [raised  |-> "ValueError",
               message |-> <<"is of lower order than the passed structure supports",
                             subl_model, self.sublattice_model>>,
               self |-> self]
    ELSE EnumerationResult(
             EnumerationLoop(UniqueSublModels(self, subl_model, endmembers),
                             scale_volume, 1,
                             [raised |-> "none", self |-> self, result |-> << >>,
                              sublattice_configuration |-> << >>,
                              sublattice_occupancies |-> << >>]))

-----------------------------------------------------------------------------
(* sqs.SQS and sqs_db.lat_in_to_sqs *)

\* SQS.__init__(*args, **kwargs)
SQS__init__(lattice_volume, species, kwargs) ==
    LET fields == [cls |-> "SQS",
                   sublattice_configuration |-> Pop(kwargs, "sublattice_configuration"),
                   sublattice_occupancies |-> Pop(kwargs, "sublattice_occupancies"),
                   sublattice_site_ratios |-> Pop(kwargs, "sublattice_site_ratios")]
    IN  Structure__init__(fields, lattice_volume, species,
                          Without(kwargs, {"sublattice_configuration",
                                           "sublattice_occupancies",
                                           "sublattice_site_ratios"}))

\* the class lat_in_to_sqs instantiates: the name SQS that sqs_db imports from
\* prlworkflows.sqs
BuilderClass__init__(lattice_volume, species, kwargs) ==
    SQS__init__(lattice_volume, species, kwargs)

\* c.lower() for one character
LowerChar(c) ==
    IF c \in DOMAIN CodePoints /\ Code(c) <= 26 THEN Alphabet[Code(c) + 27] ELSE c

\* str.lower()
Lower(str) == [i \in 1..Len(str) |-> LowerChar(str[i])]

\* str.split('_'), from character i on, with the part read so far
RECURSIVE SplitFrom(_, _, _)
SplitFrom(str, i, part) ==
    IF i > Len(str) THEN <<part>>
    ELSE IF str[i] = "_" THEN <<part>> \o SplitFrom(str, i + 1, << >>)
    ELSE SplitFrom(str, i + 1, Append(part, str[i]))

Split(str) == SplitFrom(str, 1, << >>)

\* lines 90-107: the loop over the parsed atoms n.. ; st holds subl_model (a dict
\* of sets) and species_list
RECURSIVE AtomLoop(_, _, _, _)
AtomLoop(atat_atoms, rename, n, st) ==
    IF n > Len(atat_atoms) THEN st
    ELSE LET atoms == atat_atoms[n]
         IN  IF Len(atoms) > 1
             THEN [raised |-> "NotImplementedError",
                   message |-> <<"Cannot parse atom list", atoms>>]
             ELSE IF ~rename
             THEN [raised |-> "NotImplementedError", message |-> <<"Cannot rename">>]
             ELSE LET atom == Split(Lower(atoms[1]))
                  IN  IF Len(atom) < 2
                      THEN [raised |-> "IndexError", message |-> <<"list index out of range">>]
                      ELSE
                      LET subl == atom[1]
                          subl_atom == atom[2]
                          found == IF subl \in DOMAIN st.subl_model
                                   THEN st.subl_model[subl] ELSE {}
                      IN  AtomLoop(atat_atoms, rename, n + 1,
                              [raised |-> "none",
                               subl_model |-> DictSet(st.subl_model, subl,
                                                      found \cup {subl_atom}),
                               species_list |-> Append(st.species_list,
                                                       Token(subl, subl_atom))])

\* line 114: sqs.modify_lattice(Lattice(lattice)), lattice being the product of
\* the coordinate system and the direct lattice (line 85)
ModifyLattice(parsed_data, sqs) ==
    IF sqs.raised # "none" THEN sqs
    ELSE [raised |-> "none",
          value  |-> [sqs.value EXCEPT !.volume =
                         Frac(parsed_data.coord_system_volume[1]
                                * parsed_data.lattice_volume[1],
                              parsed_data.coord_system_volume[2]
                                * parsed_data.lattice_volume[2])]]

\* lines 109-113: the sublattice model and names sorted, and the structure made
CreateStructure(parsed_data, subl_model, species_list, names) ==
    BuilderClass__init__(parsed_data.lattice_volume, species_list,
        [coords_are_cartesian |-> TRUE,
         sublattice_model |-> [i \in 1..Len(names) |-> Sorted(subl_model[names[i]])],
         sublattice_names |-> names])

\* lines 108-116, after the loop over the atoms ended or raised
BuildFrom(parsed_data, st) ==
    IF st.raised # "none" THEN st
    ELSE ModifyLattice(parsed_data,
             CreateStructure(parsed_data, st.subl_model, st.species_list,
                             Sorted(DOMAIN st.subl_model)))

\* lat_in_to_sqs(atat_lattice_in, rename), on the parsed data: the volumes of the
\* coordinate system and of the direct lattice, and the atoms of the sites
lat_in_to_sqs(parsed_data, rename) ==
    BuildFrom(parsed_data,
              AtomLoop(parsed_data.atoms, rename, 1,
                       [raised |-> "none", subl_model |-> << >>, species_list |-> << >>]))

-----------------------------------------------------------------------------
(* AbstractSQS.get_endmember_space_group_info, as_dict and from_dict *)

\* pmg.periodic_table._pt_data.keys(): the keys of pymatgen's table of the
\* elements, as far as the model holds their data
PeriodicTableKeys == <<Al, Cr, Fe, Ni>>

\* the default of the parameter scale_volume of get_concrete_sqs (line 58)
DefaultScaleVolume == TRUE

\* line 134: 'X' + subl_name
EndmemberToken(subl_name) == <<"X">> \o subl_name

\* lines 134-135: endmember_subl, one token per slot of each sublattice
AbstractEndmemberSubl(self) ==
    [i \in 1..ZipLen(self, Len(self.sublattice_model)) |->
        [j \in 1..Len(self.sublattice_model[i]) |->
            EndmemberToken(self.sublattice_names[i])]]

\* line 137: the set endmember_speices
EndmemberSpecies(self) ==
    UNION { ToSet(AbstractEndmemberSubl(self)[i]) :
              i \in 1..Len(AbstractEndmemberSubl(self)) }

\* the orders in which the elements of a set can be iterated
IterationOrders(S) ==
    { order \in [1..Cardinality(S) -> S] :
        \A a, b \in 1..Cardinality(S) : order[a] = order[b] => a = b }

\* lines 138-139: real_species_dict, the zip of the set, iterated in `order`,
\* with the keys of the table of the elements
RealSpeciesDict(order) ==
    [specie \in { order[k] : k \in 1..Min(Len(order), Len(PeriodicTableKeys)) } |->
        PeriodicTableKeys[CHOOSE k \in 1..Len(order) : order[k] = specie]]

\* line 141: endmember_subl with the real species
RealEndmemberSubl(abstract, real_species_dict) ==
    [i \in 1..Len(abstract) |->
        [j \in 1..Len(abstract[i]) |-> real_species_dict[abstract[i][j]]]]

\* line 144: endmember_struct.get_space_group_info(...), the symmetry found for
\* the structure it is asked of; the call raises what get_concrete_sqs raised
SpaceGroupInfo(made) ==
    IF made.raised # "none" THEN made
    ELSE [raised |-> "none", value |-> [space_group_of |-> made.value],
          self |-> made.self]

\* lines 141-145, with the dict of lines 138-139
EndmemberInfo(self, abstract, real_species_dict) ==
    IF \E i \in 1..Len(abstract) : ~(ToSet(abstract[i]) \subseteq DOMAIN real_species_dict)
    THEN [raised |-> "KeyError", message |-> <<"real_species_dict">>, self |-> self]
    ELSE SpaceGroupInfo(get_concrete_sqs(self, RealEndmemberSubl(abstract, real_species_dict),
                                         DefaultScaleVolume))

\* AbstractSQS.get_endmember_space_group_info(), the set of line 137 being
\* iterated in `order`
get_endmember_space_group_info(self, order) ==
    EndmemberInfo(self, AbstractEndmemberSubl(self), RealSpeciesDict(order))

\* Structure.as_dict(): the lattice and the sites with their species
Structure_as_dict(s) ==
    [lattice |-> [volume |-> s.volume],
     sites   |-> [i \in 1..NumSites(s) |->
                    [species |-> <<[element |-> s.species[i], oxidation_state |-> 0,
                                    occu |-> 1]>>]]]

\* lines 152-154: the dict with the symmetry of the endmember, or what
\* get_endmember_space_group_info raised
WithSymmetry(d, endmember_symmetry) ==
    IF endmember_symmetry.raised # "none" THEN endmember_symmetry
    ELSE [raised |-> "none",
          value  |-> d @@ [symmetry |-> endmember_symmetry.value],
          self   |-> endmember_symmetry.self]

\* AbstractSQS.as_dict()
as_dict(self, order) ==
    IF ~SiteRatioKeysFound(self)
    THEN [raised |-> "KeyError", message |-> <<"comp_dict">>, self |-> self]
    ELSE WithSymmetry(Structure_as_dict(self)
                        @@ [sublattice_model |-> self.sublattice_model,
                            sublattice_names |-> self.sublattice_names,
                            sublattice_site_ratios |-> sublattice_site_ratios(self)],
                      get_endmember_space_group_info(self, order))

\* a mutation of Get: the list is read back to front
GetReversed(d, key) == [i \in 1..Len(d[key]) |-> d[key][Len(d[key]) + 1 - i]]

\* d.get(key)
Get(d, key) == IF key \in DOMAIN d THEN d[key] ELSE None

\* Structure.from_dict(d) called on the class AbstractSQS: the structure is made
\* of the sites by the constructor of the class
Structure_from_dict(d) ==
    AbstractSQS__init__(d.lattice.volume,
                        [i \in 1..Len(d.sites) |-> d.sites[i].species[1].element],
                        << >>)

\* lines 159-161: the attributes set from the dict
SetSublattices(made, d) ==
    IF made.raised # "none" THEN made
    ELSE [raised |-> "none",
          value  |-> [made.value EXCEPT !.sublattice_model = Get(d, "sublattice_model"),
                                        !.sublattice_names = Get(d, "sublattice_names")]]

\* AbstractSQS.from_dict(d)
from_dict(d) == SetSublattices(Structure_from_dict(d), d)

-----------------------------------------------------------------------------
(* SQS.reindex_sublattice and SQS.reindex *)

\* sorted() of a list of int
RECURSIVE SortedInts(_)
SortedInts(seq) ==
    IF seq = << >> THEN << >>
    ELSE LET k == CHOOSE i \in 1..Len(seq) : \A j \in 1..Len(seq) : seq[i] <= seq[j]
         IN  <<seq[k]>> \o SortedInts(RemoveAt(seq, k))

\* a mutation of Range: the indices counted from one
RangeFromOne(n) == [i \in 1..n |-> i]

\* list(range(n))
Range(n) == [i \in 1..n |-> i - 1]

\* a mutation of Reindexed: the first index is read for every entry
FirstIndexOnly(lst, new_indices) == [k \in 1..Len(new_indices) |-> lst[new_indices[1] + 1]]

\* [lst[i] for i in new_indices]
Reindexed(lst, new_indices) == [k \in 1..Len(new_indices) |-> lst[new_indices[k] + 1]]

\* SQS.reindex_sublattice(new_indices, subl_model, subl_occupancies, subl_site_ratios)
reindex_sublattice(new_indices, subl_model, subl_occupancies, subl_site_ratios) ==
    IF SortedInts(new_indices) # Range(Len(subl_model))
    THEN [raised  |-> "ValueError",
          message |-> <<"do not match the sublattice model indices", new_indices,
                        Range(Len(subl_model))>>]
    ELSE [raised |-> "none",
          value  |-> <<Reindexed(subl_model, new_indices),
                       Reindexed(subl_occupancies, new_indices),
                       Reindexed(subl_site_ratios, new_indices)>>]

\* lines 272-273: the assignment of the tuple, which is not reached if the call
\* raised
AssignReindexed(self, r) ==
    IF r.raised # "none" THEN r @@ [self |-> self]
    ELSE [raised |-> "none", value |-> None,
          self |-> [self EXCEPT !.sublattice_configuration = r.value[1],
                                !.sublattice_occupancies = r.value[2],
                                !.sublattice_site_ratios = r.value[3]]]

\* SQS.reindex(new_indices): what it raises, and the object afterwards
reindex(self, new_indices) ==
    AssignReindexed(self, reindex_sublattice(new_indices, self.sublattice_configuration,
                                             self.sublattice_occupancies,
                                             self.sublattice_site_ratios))

-----------------------------------------------------------------------------
(* The abstract structures and the arguments the model draws from. *)

\* the i-th lower-case letter, as a str
Letter(i) == <<Alphabet[27 + i]>>

\* [x] * n
Repeat(x, n) == [i \in 1..n |-> x]

\* the species of the sites of a structure with counts[i][j] sites of symbol j
\* of sublattice i
SpeciesOf(names, model, counts) ==
    Flatten([i \in 1..Len(names) |->
        Flatten([j \in 1..Len(model[i]) |->
            Repeat(Token(names[i], model[i][j]), counts[i][j])])])

\* AbstractSQS(lattice, species, coords, sublattice_model=..., sublattice_names=...),
\* as test_sqs_obj_correctly_serialized constructs one
NewAbstractSQS(lattice_volume, names, model, counts) ==
    AbstractSQS__init__(lattice_volume, SpeciesOf(names, model, counts),
                        [sublattice_model |-> model, sublattice_names |-> names]).value

\* the structure of ATAT_FCC_L12_LATTICE_IN
FCC_L12 ==
    NewAbstractSQS(<<8, 1>>, <<Letter(1), Letter(3)>>,
                   <<<<Letter(1), Letter(2)>>, <<Letter(1)>>>>, <<<<4, 4>>, <<24>>>>)

\* the structure of ATAT_ROCKSALT_B1_LATTICE_IN
ROCKSALT_B1 ==
    NewAbstractSQS(<<4, 1>>, <<Letter(1), Letter(2)>>,
                   <<<<Letter(1), Letter(2)>>, <<Letter(1), Letter(2)>>>>,
                   <<<<8, 8>>, <<8, 8>>>>)

\* the structure of ATAT_GA3PT5_LATTICE_IN_MUTLI_ATOM
GA3PT5_MULTI_ATOM ==
    NewAbstractSQS(<<2, 1>>, << <<"a", "e", "j">>, <<"b", "h">> >>,
                   << << <<"a", "f">> >>, << <<"a", "q", "w", "e", "r", "t", "y">> >> >>,
                   <<<<5>>, <<3>>>>)

\* the fcc 75/25 binary SQS of enumerate_sqs's docstring: one sublattice, two slots
FCC_75_25 ==
    NewAbstractSQS(<<4, 1>>, <<Letter(1)>>, <<<<Letter(1), Letter(2)>>>>, <<<<3, 1>>>>)

Fixtures == {FCC_L12, ROCKSALT_B1, GA3PT5_MULTI_ATOM, FCC_75_25}

\* the non-empty sequences of positive integers that sum to t (<< >> for 0)
RECURSIVE CountSeqs(_)
CountSeqs(t) ==
    IF t = 0 THEN { << >> }
    ELSE UNION { { <<c>> \o r : r \in CountSeqs(t - c) } : c \in 1..t }

\* the site counts counts[i][j] of the structures with t sites, every sublattice
\* with a slot and every slot with a site
RECURSIVE Layouts(_)
Layouts(t) ==
    IF t = 0 THEN { << >> }
    ELSE UNION { { <<subl>> \o r : subl \in CountSeqs(k), r \in Layouts(t - k) } :
                 k \in 1..t }

\* the generated abstract structures: sublattices a, b, ..., symbols a, b, ...
GeneratedStructures ==
    { NewAbstractSQS(<<SumSeq([i \in 1..Len(c) |-> SumSeq(c[i])]), 1>>,
                     [i \in 1..Len(c) |-> Letter(i)],
                     [i \in 1..Len(c) |-> [j \in 1..Len(c[i]) |-> Letter(j)]],
                     c) :
        c \in UNION { Layouts(t) : t \in 1..MaxSites } }

AbstractStructures == Fixtures \cup GeneratedStructures

\* the species of the generated sublattice models
Species == {Al, Ni}

\* the non-empty lists of t species
ListsOf(t) == [1..t -> Species]

\* the sublattice models with t species entries and no empty inner list
RECURSIVE ModelsOf(_)
ModelsOf(t) ==
    IF t = 0 THEN { << >> }
    ELSE UNION { { <<subl>> \o r : subl \in ListsOf(k), r \in ModelsOf(t - k) } :
                 k \in 1..t }

\* models beyond the generated ones: the models of the tests, three species for
\* two slots, an empty inner list, and a species that is no element
ExtraModels ==
    { <<<<Al, Ni>>, <<Fe, Cr>>>>, <<<<Fe, Ni>>, <<Al>>>>, <<<<Al, Al>>, <<Al>>>>,
      <<<<Al, Fe, Ni>>>>, <<<<Al, Ni>>, << >>>>, <<<<Xx, Al>>>>, <<<<Al>>, <<Xx>>>> }

\* the concrete and solution sublattice models passed to the calls
SublatticeModels == UNION { ModelsOf(t) : t \in 1..MaxEntries } \cup ExtraModels

\* the site labels of the generated lattice files: a_A, a_B, b_A, aej_Af, bh_Aqwerty
Labels ==
    { <<"a", "_", "A">>, <<"a", "_", "B">>, <<"b", "_", "A">>,
      <<"a", "e", "j", "_", "A", "f">>,
      <<"b", "h", "_", "A", "q", "w", "e", "r", "t", "y">> }

\* parsed lattice files: one label per site; and beyond them a site with two
\* species, a label without the delimiter, and the labels a_BC and ab_C
ParsedLatticeFiles ==
    { [coord_system_volume |-> <<1, 1>>, lattice_volume |-> <<Len(atoms), 1>>,
       atoms |-> atoms] :
        atoms \in { [i \in 1..Len(labels) |-> <<labels[i]>>] :
                      labels \in SeqsOf(Labels, 1, MaxSites) }
                  \cup { << <<<<"a", "_", "A">>, <<"a", "_", "B">>>> >>,
                         << <<<<"a", "_", "A">>>>, <<<<"A", "l">>>> >>,
                         << <<<<"a", "_", "B", "C">>>>, <<<<"a", "b", "_", "C">>>> >> } }
    \cup { [coord_system_volume |-> <<4, 1>>, lattice_volume |-> <<1, 2>>,
            atoms |-> [i \in 1..8 |-> IF i <= 5 THEN <<<<"a", "e", "j", "_", "A", "f">>>>
                                      ELSE <<<<"b", "h", "_", "A", "q", "w", "e", "r", "t", "y">>>>]] }

\* lists of indices that are no permutation of 0..n-1: an index out of range, a
\* negative one, one twice, one missing, one too many
BadIndexLists(n) ==
    { [Range(n) EXCEPT ![n] = n], [Range(n) EXCEPT ![n] = -1],
      [Range(n) EXCEPT ![n] = 0], SubSeq(Range(n), 1, n - 1),
      Append(Range(n), n), Append(Range(n), 0) } \ {Range(n)}

\* the lists new_indices passed to reindex for n sublattices
IndexLists(n) == IterationOrders(0..(n - 1)) \cup BadIndexLists(n)

-----------------------------------------------------------------------------
(* The caller. *)

NoCall == [op |-> "none"]

NoOutcome == [raised |-> "none", value |-> None]

\* what the caller sees of a call: all but the object self
Outcome(r) == [k \in DOMAIN r \ {"self"} |-> r[k]]

\* the call `c` made on the object `self`; an object of another class has neither
\* the method get_concrete_sqs nor the attribute sublattice_model
Invoke(self, c) ==
    IF c.op = "lat_in_to_sqs"
    THEN lat_in_to_sqs(c.parsed_data, c.rename) @@ [self |-> self]
    ELSE IF self.cls # "AbstractSQS"
    THEN [raised |-> "AttributeError", message |-> <<self.cls, c.op>>, self |-> self]
    ELSE IF c.op = "get_concrete_sqs"
    THEN get_concrete_sqs(self, c.subl_model, c.scale_volume)
    ELSE enumerate_sqs(self, c.subl_model, c.endmembers, c.scale_volume,
                       c.skip_on_failure)

Init ==
    /\ structure = None
    /\ pc = "start"
    /\ call = NoCall
    /\ outcome = NoOutcome

\* AbstractSQS(lattice, species, coords, sublattice_model=..., sublattice_names=...)
Construct ==
    /\ pc = "start"
    /\ structure' \in AbstractStructures
    /\ pc' = "idle"
    /\ UNCHANGED <<call, outcome>>

\* structure = lat_in_to_sqs(atat_lattice_in, rename)
LatInToSqs ==
    /\ pc = "start"
    /\ \E parsed_data \in ParsedLatticeFiles, rename \in BOOLEAN :
          LET c == [op |-> "lat_in_to_sqs", parsed_data |-> parsed_data,
                    rename |-> rename]
              r == Invoke(structure, c)
          IN  /\ call' = c
              /\ outcome' = Outcome(r)
              /\ structure' = IF r.raised = "none" THEN r.value ELSE None
    /\ pc' = "returned"

\* structure.get_concrete_sqs(subl_model, scale_volume)
GetConcreteSqs ==
    /\ pc = "idle"
    /\ \E subl_model \in SublatticeModels, scale_volume \in BOOLEAN :
          LET c == [op |-> "get_concrete_sqs", subl_model |-> subl_model,
                    scale_volume |-> scale_volume]
              r == Invoke(structure, c)
          IN  /\ call' = c
              /\ outcome' = Outcome(r)
              /\ structure' = r.self
    /\ pc' = "returned"

\* enumerate_sqs(structure, subl_model, endmembers, scale_volume, skip_on_failure)
EnumerateSqs ==
    /\ pc = "idle"
    /\ \E subl_model \in SublatticeModels, endmembers \in BOOLEAN,
          scale_volume \in BOOLEAN, skip_on_failure \in BOOLEAN :
          LET c == [op |-> "enumerate_sqs", subl_model |-> subl_model,
                    endmembers |-> endmembers, scale_volume |-> scale_volume,
                    skip_on_failure |-> skip_on_failure]
              r == Invoke(structure, c)
          IN  /\ call' = c
              /\ outcome' = Outcome(r)
              /\ structure' = r.self
    /\ pc' = "returned"

\* structure.get_endmember_space_group_info()
GetEndmemberSpaceGroupInfo ==
    /\ pc = "idle"
    /\ \E order \in IterationOrders(EndmemberSpecies(structure)) :
          LET r == get_endmember_space_group_info(structure, order)
          IN  /\ outcome' = Outcome(r)
              /\ structure' = r.self
    /\ call' = [op |-> "get_endmember_space_group_info"]
    /\ pc' = "inspected"

\* d = structure.as_dict()
AsDict ==
    /\ pc = "idle"
    /\ \E order \in IterationOrders(EndmemberSpecies(structure)) :
          LET r == as_dict(structure, order)
          IN  /\ outcome' = Outcome(r)
              /\ structure' = r.self
    /\ call' = [op |-> "as_dict"]
    /\ pc' = "serialized"

\* AbstractSQS.from_dict(d), d being the dict as_dict returned
FromDict ==
    /\ pc = "serialized"
    /\ outcome.raised = "none"
    /\ call' = [op |-> "from_dict", d |-> outcome.value]
    /\ outcome' = from_dict(outcome.value)
    /\ pc' = "restored"
    /\ UNCHANGED structure

\* the caller goes on with the structure that from_dict returned
UseRestored ==
    /\ pc = "restored"
    /\ outcome.raised = "none"
    /\ structure' = outcome.value
    /\ pc' = "idle"
    /\ call' = NoCall
    /\ outcome' = NoOutcome

\* the concrete structure the caller holds: the one get_concrete_sqs returned,
\* or that one as the last reindex left it
ConcreteHeld == IF pc = "returned" THEN outcome.value ELSE outcome.self

\* concrete.reindex(new_indices), on the concrete structure the caller holds
Reindex ==
    /\ \/ pc = "returned" /\ call.op = "get_concrete_sqs" /\ outcome.raised = "none"
       \/ pc = "reindexed"
    /\ \E new_indices \in IndexLists(Len(ConcreteHeld.sublattice_configuration)) :
          /\ call' = [op |-> "reindex", new_indices |-> new_indices, self |-> ConcreteHeld]
          /\ outcome' = reindex(ConcreteHeld, new_indices)
    /\ pc' = "reindexed"
    /\ UNCHANGED structure

\* the same call on the structure made again with the same arguments
CallAgain ==
    /\ pc = "returned"
    /\ call.op # "lat_in_to_sqs"
    /\ LET r == Invoke(structure, call)
       IN  /\ outcome' = Outcome(r)
           /\ structure' = r.self
    /\ UNCHANGED <<pc, call>>

\* the caller drops the result
Discard ==
    /\ pc \notin {"start", "idle"}
    /\ pc' = IF structure = None THEN "start" ELSE "idle"
    /\ call' = NoCall
    /\ outcome' = NoOutcome
    /\ UNCHANGED structure

Next ==
    \/ Construct
    \/ LatInToSqs
    \/ GetConcreteSqs
    \/ EnumerateSqs
    \/ GetEndmemberSpaceGroupInfo
    \/ AsDict
    \/ FromDict
    \/ UseRestored
    \/ Reindex
    \/ CallAgain
    \/ Discard

Spec == Init /\ [][Next]_vars

-----------------------------------------------------------------------------
(* Properties. *)

\* enumerate_sqs has returned or raised
EnumerateReturned == pc = "returned" /\ call.op = "enumerate_sqs"

\* get_concrete_sqs has returned or raised
ConcreteReturned == pc = "returned" /\ call.op = "get_concrete_sqs"

\* the model of the call has as many sublattices as the abstract structure
SameOuterLength == Len(call.subl_model) = Len(structure.sublattice_model)

\* some inner list of the model of the call is shorter than its abstract sublattice
SomeInnerShorter ==
    \E i \in 1..Min(Len(call.subl_model), Len(structure.sublattice_model)) :
        Len(call.subl_model[i]) < Len(structure.sublattice_model[i])

\* no inner list of the model of the call lists a species twice
NoSpeciesTwice ==
    \A i \in 1..Len(call.subl_model) :
        Cardinality(ToSet(call.subl_model[i])) = Len(call.subl_model[i])

\* k! / (k - r)!
RECURSIVE FallingFactorial(_, _)
FallingFactorial(k, r) ==
    IF r = 0 THEN 1 ELSE IF k < r THEN 0 ELSE k * FallingFactorial(k - 1, r - 1)

\* k ^ r
RECURSIVE Power(_, _)
Power(k, r) == IF r = 0 THEN 1 ELSE k * Power(k, r - 1)

\* the product of the numbers of a sequence
RECURSIVE ProductSeq(_)
ProductSeq(seq) == IF seq = << >> THEN 1 ELSE Head(seq) * ProductSeq(Tail(seq))

\* the call is an enumeration the code does not refuse and that did not raise
EnumerationDone ==
    /\ EnumerateReturned
    /\ SameOuterLength
    /\ ~SomeInnerShorter
    /\ outcome.raised = "none"

\* C1: with endmembers=False enumerate_sqs returns one structure per ordered,
\* repetition-free assignment of solution species to the abstract slots: the
\* product over the sublattices of k!/(k-r)!  (4 for [['a','b'],['a']] and for
\* [['a','b'],['a','b']] against [['Al','Ni'],['Fe','Cr']]).
C1_PermutationCount ==
    (EnumerationDone /\ ~call.endmembers /\ NoSpeciesTwice)
        => Len(outcome.value) =
               ProductSeq([i \in 1..Len(call.subl_model) |->
                   FallingFactorial(Len(call.subl_model[i]),
                                    Len(structure.sublattice_model[i]))])

\* C2: with endmembers=True enumerate_sqs returns one structure per assignment
\* with repetition allowed, k^r per sublattice (16 for [['a','b'],['a','b']]
\* against [['Al','Ni'],['Fe','Cr']]), each of them a concrete SQS.
C2_EndmembersIncluded ==
    (EnumerationDone /\ call.endmembers /\ NoSpeciesTwice)
        => /\ Len(outcome.value) =
                  ProductSeq([i \in 1..Len(call.subl_model) |->
                      Power(Len(call.subl_model[i]), Len(structure.sublattice_model[i]))])
           /\ \A n \in 1..Len(outcome.value) : outcome.value[n].cls = "SQS"

\* C3: whenever some inner list of the solution model is shorter than its abstract
\* sublattice, whatever the other inner lists are, enumerate_sqs raises the
\* lower-order ValueError without skip_on_failure and returns [] with it.
C3_LowerOrderRejected ==
    (EnumerateReturned /\ SameOuterLength /\ SomeInnerShorter)
        => IF call.skip_on_failure
           THEN outcome.raised = "none" /\ outcome.value = << >>
           ELSE /\ outcome.raised = "ValueError"
                /\ outcome.message[1] = "is of lower order than the passed structure supports"

\* C4: an outer length that differs raises a ValueError whatever skip_on_failure
\* is; skip_on_failure returns its empty result only when an inner list is shorter
\* than its abstract sublattice, and a candidate's failure is raised with it too.
C4_SkipOnlyLowerOrder ==
    EnumerateReturned =>
        /\ ~SameOuterLength =>
              /\ outcome.raised = "ValueError"
              /\ outcome.message[1] = "does not agree with the passed structure"
        /\ (outcome.raised = "none" /\ outcome.line = 306) =>
              (call.skip_on_failure /\ SameOuterLength /\ SomeInnerShorter)
        /\ ( /\ SameOuterLength
             /\ call.scale_volume
             /\ \A i \in 1..Len(call.subl_model) :
                   Len(call.subl_model[i]) = Len(structure.sublattice_model[i])
             /\ \E i \in 1..Len(call.subl_model) :
                   ~(ToSet(call.subl_model[i]) \subseteq Elements) )
           => outcome.raised = "ValueError"

\* witness of C4: a solution model of another outer length, with skip_on_failure
C4_Witness ==
    /\ EnumerateReturned
    /\ call.skip_on_failure
    /\ ~SameOuterLength
    /\ outcome.raised = "ValueError"

\* some inner list of the model of the call has another length than its abstract
\* sublattice has symbols
SomeInnerDiffers ==
    \E i \in 1..Min(Len(call.subl_model), Len(structure.sublattice_model)) :
        Len(call.subl_model[i]) # Len(structure.sublattice_model[i])

\* get_concrete_sqs has returned a concrete structure
ConcreteMade == ConcreteReturned /\ outcome.raised = "none"

\* C5: get_concrete_sqs raises the size-mismatch ValueError, its message holding
\* the concrete and the abstract sublattice model, whenever the outer lengths
\* differ or some inner list's length differs from its abstract sublattice's
\* number of symbols; no concrete structure is returned then.
C5_SizeMismatchRaises ==
    (ConcreteReturned /\ (~SameOuterLength \/ SomeInnerDiffers))
        => /\ outcome.raised = "ValueError"
           /\ outcome.message = <<"does not match size of abstract sublattice model",
                                  call.subl_model, structure.sublattice_model>>
           /\ "value" \notin DOMAIN outcome

\* witness of C5: the outer lengths agree and an inner list is longer than its
\* abstract sublattice
C5_Witness ==
    /\ ConcreteReturned
    /\ SameOuterLength
    /\ \E i \in 1..Len(call.subl_model) :
          Len(call.subl_model[i]) > Len(structure.sublattice_model[i])
    /\ outcome.raised = "ValueError"

\* the number of sites of the abstract structure in slot j of sublattice i
SlotCount(i, j) ==
    Count(structure, Token(structure.sublattice_names[i], structure.sublattice_model[i][j]))

\* the number of sites of the abstract structure in sublattice i
SublatticeCount(i) ==
    SumSeq([j \in 1..Len(structure.sublattice_model[i]) |-> SlotCount(i, j)])

\* the share of sublattice i that the slots mapped to the species sp hold
ShareOf(i, sp) ==
    FracSum([j \in 1..Len(structure.sublattice_model[i]) |->
                IF call.subl_model[i][j] = sp
                THEN Frac(SlotCount(i, j), SublatticeCount(i))
                ELSE <<0, 1>>])

\* C6: in every concrete structure get_concrete_sqs returns, also for a model
\* that gives one species to several slots of a sublattice, each inner list of
\* sublattice_occupancies sums to 1, the occupancy of a species being the sum of
\* the site-ratio shares of the slots of that sublattice mapped to it.
C6_OccupanciesSumToOne ==
    ConcreteMade =>
        \A i \in 1..Len(outcome.value.sublattice_occupancies) :
            /\ FracSum(outcome.value.sublattice_occupancies[i]) = <<1, 1>>
            /\ \A j \in 1..Len(outcome.value.sublattice_occupancies[i]) :
                  outcome.value.sublattice_occupancies[i][j] =
                      ShareOf(i, outcome.value.sublattice_configuration[i][j])

\* witness of C6: a sublattice with two species of which one holds two slots
C6_Witness ==
    /\ ConcreteMade
    /\ \E i \in 1..Len(call.subl_model) :
          /\ Len(outcome.value.sublattice_configuration[i]) = 2
          /\ Len(call.subl_model[i]) = 3

\* C7: in every concrete structure get_concrete_sqs returns, the three lists
\* sublattice_configuration, sublattice_occupancies and sublattice_site_ratios
\* have the number of abstract sublattices as outer length; each inner list of
\* the configuration is sorted, lists no species twice and is as long as the
\* inner list of the occupancies.
C7_ListsAgree ==
    ConcreteMade =>
        /\ Len(outcome.value.sublattice_configuration) = Len(structure.sublattice_model)
        /\ Len(outcome.value.sublattice_occupancies) = Len(structure.sublattice_model)
        /\ Len(outcome.value.sublattice_site_ratios) = Len(structure.sublattice_model)
        /\ \A i \in 1..Len(structure.sublattice_model) :
              /\ Len(outcome.value.sublattice_configuration[i])
                     = Len(outcome.value.sublattice_occupancies[i])
              /\ \A j \in 1..(Len(outcome.value.sublattice_configuration[i]) - 1) :
                    StrLess(outcome.value.sublattice_configuration[i][j],
                            outcome.value.sublattice_configuration[i][j + 1])

\* witness of C7: a model whose inner list is not sorted and names a species twice
C7_Witness ==
    /\ ConcreteMade
    /\ \E i \in 1..Len(call.subl_model) :
          /\ Len(call.subl_model[i]) = 3
          /\ call.subl_model[i][1] = Ni
          /\ call.subl_model[i][2] = Al
          /\ call.subl_model[i][3] = Ni

\* the greatest common divisor of the site counts of all slots of the abstract
\* structure
CountsGcd ==
    GcdAll(UNION { { SlotCount(i, j) : j \in 1..Len(structure.sublattice_model[i]) } :
                   i \in 1..Len(structure.sublattice_model) })

SingleSpeciesSites ==
    \A n \in 1..Len(call.parsed_data.atoms) :
        /\ Len(call.parsed_data.atoms[n]) = 1
        /\ Len(Split(call.parsed_data.atoms[n][1])) = 2

\* C10: lat_in_to_sqs with rename=True, on a valid input with one species per
\* site, returns an AbstractSQS whose sublattice_model and sublattice_names are
\* set, so that the methods of the abstract structure apply to it.
C10_BuilderReturnsAbstractSQS ==
    (pc = "returned" /\ call.op = "lat_in_to_sqs" /\ call.rename /\ SingleSpeciesSites)
        => /\ outcome.raised = "none"
           /\ outcome.value.cls = "AbstractSQS"
           /\ Len(outcome.value.sublattice_model) > 0
           /\ Len(outcome.value.sublattice_names) = Len(outcome.value.sublattice_model)

\* lat_in_to_sqs has returned or raised
BuilderReturned == pc = "returned" /\ call.op = "lat_in_to_sqs"

\* the lower-cased (sublattice name, symbol) pair of the label of site n of the
\* parsed lattice file of the call
LabelPair(n) == Split(Lower(call.parsed_data.atoms[n][1]))

\* the lower-cased sublattice names of the labels of the call
LabelNames == { LabelPair(n)[1] : n \in 1..Len(call.parsed_data.atoms) }

\* the lower-cased symbols of the labels of the call on the sublattice `name`
LabelSymbols(name) ==
    { LabelPair(n)[2] : n \in { k \in 1..Len(call.parsed_data.atoms) :
                                   LabelPair(k)[1] = name } }

\* C11: for an input whose site labels are <sublattice>_<symbol>, the builder
\* produces sublattice_names, the sorted distinct lower-cased sublattice names,
\* and a sublattice_model of the same length whose entry i is the sorted list of
\* the distinct lower-cased symbols of sublattice i; names and symbols of several
\* characters are kept whole.
C11_BuilderNamesAndModel ==
    (BuilderReturned /\ call.rename /\ SingleSpeciesSites)
        => /\ outcome.raised = "none"
           /\ outcome.value.sublattice_names = Sorted(LabelNames)
           /\ Len(outcome.value.sublattice_model) = Len(outcome.value.sublattice_names)
           /\ \A i \in 1..Len(outcome.value.sublattice_names) :
                 outcome.value.sublattice_model[i] =
                     Sorted(LabelSymbols(outcome.value.sublattice_names[i]))

SublatticeLists(sqs) ==
    <<sqs.sublattice_configuration, sqs.sublattice_occupancies, sqs.sublattice_site_ratios>>

\* p is a permutation of 0..n-1
IsPermutation(p, n) ==
    /\ Len(p) = n
    /\ \A i \in 0..(n - 1) : \E k \in 1..n : p[k] = i

\* C13: reindex(new_indices) on a concrete structure with N sublattices raises a
\* ValueError when new_indices is no permutation of 0..N-1 and then leaves the
\* three lists as they were; for a permutation each list becomes
\* [old[i] for i in new_indices].
C13_ReindexValidates ==
    pc = "reindexed" =>
        IF IsPermutation(call.new_indices, Len(call.self.sublattice_configuration))
        THEN /\ outcome.raised = "none"
             /\ \A l \in 1..3 :
                   /\ Len(SublatticeLists(outcome.self)[l]) = Len(call.new_indices)
                   /\ \A k \in 1..Len(call.new_indices) :
                         SublatticeLists(outcome.self)[l][k] =
                             SublatticeLists(call.self)[l][call.new_indices[k] + 1]
        ELSE /\ outcome.raised = "ValueError"
             /\ SublatticeLists(outcome.self) = SublatticeLists(call.self)

\* witness of C13: two sublattices and an index given twice
C13_Witness ==
    /\ pc = "reindexed"
    /\ call.new_indices = <<0, 0>>
    /\ Len(call.self.sublattice_configuration) = 2
    /\ outcome.raised = "ValueError"

\* q is the inverse of the permutation p
IsInverse(q, p) ==
    /\ Len(q) = Len(p)
    /\ \A k \in 1..Len(p) : q[p[k] + 1] = k - 1

\* C14: reindex(p) followed by reindex(inverse(p)) restores the three lists of a
\* concrete structure element for element.
C14_ReindexInverse ==
    [][ ( /\ pc = "reindexed" /\ outcome.raised = "none"
          /\ pc' = "reindexed"
          /\ IsInverse(call'.new_indices, call.new_indices) )
        => SublatticeLists(outcome'.self) = SublatticeLists(call.self) ]_vars

\* witness of C14: the structure with site ratios 2 and 6, reindexed by [1, 0]
\* before, is reindexed by [1, 0] and has its site ratios back
C14_Witness ==
    /\ pc = "reindexed"
    /\ structure = FCC_L12
    /\ call.self.sublattice_site_ratios = <<6, 2>>
    /\ call.new_indices = <<1, 0>>
    /\ outcome.raised = "none"
    /\ outcome.self.sublattice_site_ratios = <<2, 6>>

\* the (sublattice_configuration, sublattice_occupancies) pairs of a list of
\* concrete structures
PairsOf(structures) ==
    { <<structures[n].sublattice_configuration, structures[n].sublattice_occupancies>> :
        n \in 1..Len(structures) }

\* list b holds the entries of list a in some order
IsReordering(a, b) ==
    /\ Len(a) = Len(b)
    /\ \A x \in ToSet(a) \cup ToSet(b) :
          Cardinality({ i \in 1..Len(a) : a[i] = x })
              = Cardinality({ i \in 1..Len(b) : b[i] = x })

\* the sublattice models that list the species of each sublattice of the model of
\* the call in another order
Reorderings ==
    { model \in SublatticeModels :
        /\ Len(model) = Len(call.subl_model)
        /\ \A i \in 1..Len(model) : IsReordering(call.subl_model[i], model[i]) }

\* C15: the structures enumerate_sqs returns, identified by their
\* (sublattice_configuration, sublattice_occupancies), do not depend on the order
\* in which the species are listed inside the inner lists of the solution model.
C15_OrderIndependent ==
    EnumerationDone =>
        \A model \in Reorderings :
            PairsOf(enumerate_sqs(structure, model, call.endmembers, call.scale_volume,
                                  call.skip_on_failure).value)
                = PairsOf(outcome.value)

\* the (sublattice_configuration, sublattice_occupancies) pairs of the candidates
\* enumerate_sqs makes concrete for the call
CandidatePairs ==
    LET models == UniqueSublModels(structure, call.subl_model, call.endmembers)
    IN  { <<c.sublattice_configuration, c.sublattice_occupancies>> :
            c \in { get_concrete_sqs(structure, models[n], call.scale_volume).value :
                      n \in 1..Len(models) } }

\* C16: enumerate_sqs discards a candidate if and only if an earlier candidate has
\* the same sublattice_configuration and the same sublattice_occupancies, so every
\* pair of the candidates is returned once: six structures for a 75/25 two-slot
\* sublattice against [['Al','Fe','Ni']].
C16_DedupByPair ==
    EnumerationDone =>
        /\ PairsOf(outcome.value) = CandidatePairs
        /\ Len(outcome.value) = Cardinality(CandidatePairs)

\* C17: enumerate_sqs discards a candidate whose sublattice_configuration or whose
\* sublattice_occupancies was seen in a kept candidate, so no two returned
\* structures share a sublattice_configuration and no two share their
\* sublattice_occupancies.
C17_DedupByEither ==
    EnumerationDone =>
        \A n, m \in 1..Len(outcome.value) :
            n # m =>
                /\ outcome.value[n].sublattice_configuration
                       # outcome.value[m].sublattice_configuration
                /\ outcome.value[n].sublattice_occupancies
                       # outcome.value[m].sublattice_occupancies

\* C18: with endmembers=False no returned structure has a sublattice of two or
\* more abstract slots occupied by a single species, also when the solution model
\* lists a species twice in an inner list.
C18_NoEndmembers ==
    (EnumerationDone /\ ~call.endmembers) =>
        \A n \in 1..Len(outcome.value) :
            \A i \in 1..Len(structure.sublattice_model) :
                Len(structure.sublattice_model[i]) >= 2
                    => Len(outcome.value[n].sublattice_configuration[i]) >= 2

\* the species_list the builder has made of the sites of the call when its loop
\* over the atoms ends
BuilderTokens ==
    AtomLoop(call.parsed_data.atoms, call.rename, 1,
             [raised |-> "none", subl_model |-> << >>, species_list |-> << >>]).species_list

\* C19: the token the builder makes for a site identifies the pair of sublattice
\* name and abstract symbol of its label: two sites whose pairs differ get
\* different tokens, so that site counts and the replacement map never merge the
\* sites of two sublattices or symbols.
C19_TokensUnambiguous ==
    (BuilderReturned /\ call.rename /\ SingleSpeciesSites) =>
        \A n, m \in 1..Len(call.parsed_data.atoms) :
            LabelPair(n) # LabelPair(m) => BuilderTokens[n] # BuilderTokens[m]

\* the endmember structure of which get_endmember_space_group_info returned the
\* symmetry
EndmemberStruct == outcome.value.space_group_of

\* C20: get_endmember_space_group_info makes its endmember structure by the
\* substitution without scaling the volume, so the endmember structure has the
\* volume of the abstract structure, and gives every sublattice one species that
\* no other sublattice has.
C20_EndmemberNotScaled ==
    (pc = "inspected" /\ outcome.raised = "none") =>
        /\ EndmemberStruct.volume = structure.volume
        /\ \A i \in 1..Len(structure.sublattice_model) :
              /\ Len(EndmemberStruct.sublattice_configuration[i]) = 1
              /\ \A j \in 1..Len(structure.sublattice_model) :
                    i # j => EndmemberStruct.sublattice_configuration[i]
                                 # EndmemberStruct.sublattice_configuration[j]

=============================================================================
